---- MODULE Spec2Model ----
(***************************************************************************)
(* Form-filling assistant: the PDF extractor (backend/extractor.py), the   *)
(* two Google-Forms fillers (backend/form_filler.py, the asynchronous      *)
(* variant, and backend/form_filler_sync.py, the persistent synchronous    *)
(* variant) as state machines, with python's string operations computed    *)
(* on TLC strings character by character.                                  *)
(***************************************************************************)
EXTENDS Integers, Sequences, FiniteSets, TLC

(***************************************************************************)
(* Bounds of the model.                                                    *)
(***************************************************************************)
MaxGroups == 5
MaxCand == 2
MaxPolls == 1
MaxPages == 2
MaxLines == 2
MaxRequests == 2

(***************************************************************************)
(* Python string operations.                                               *)
(***************************************************************************)
UpperChars == "ABCDEFGHIJKLMNOPQRSTUVWXYZ"
LowerChars == "abcdefghijklmnopqrstuvwxyz"
DigitChars == "0123456789"

Ch(s, i) == SubSeq(s, i, i)

CharsOf(s) == {Ch(s, i) : i \in 1..Len(s)}

UpperSet == CharsOf(UpperChars)
LowerSet == CharsOf(LowerChars)
DigitSet == CharsOf(DigitChars)
AlphaSet == UpperSet \cup LowerSet
SpaceSet == {" ", "\t", "\n", "\r", "\f"}

\* the lower-case letter of each upper-case letter
LowerOf ==
  [c \in UpperSet |-> Ch(LowerChars, CHOOSE i \in 1..Len(UpperChars) : Ch(UpperChars, i) = c)]

\* str.lower() of one character
LowerCh(c) == IF c \in UpperSet THEN LowerOf[c] ELSE c

RECURSIVE Lower(_)
\* str.lower()
Lower(s) ==
  IF Len(s) <= 1 THEN LowerCh(s)
  ELSE Lower(SubSeq(s, 1, Len(s) \div 2)) \o Lower(SubSeq(s, Len(s) \div 2 + 1, Len(s)))

RECURSIVE LStrip(_)
LStrip(s) ==
  IF s # "" /\ Ch(s, 1) \in SpaceSet THEN LStrip(SubSeq(s, 2, Len(s))) ELSE s

RECURSIVE RStrip(_)
RStrip(s) ==
  IF s # "" /\ Ch(s, Len(s)) \in SpaceSet THEN RStrip(SubSeq(s, 1, Len(s) - 1)) ELSE s

\* str.strip()
Strip(s) == RStrip(LStrip(s))

RECURSIVE RemoveChar(_, _)
\* str.replace(c, '') for a one-character c
RemoveChar(s, c) ==
  IF Len(s) <= 1 THEN (IF s = c THEN "" ELSE s)
  ELSE RemoveChar(SubSeq(s, 1, Len(s) \div 2), c)
         \o RemoveChar(SubSeq(s, Len(s) \div 2 + 1, Len(s)), c)

\* k in s
Contains(s, k) ==
  \E i \in 1..(Len(s) - Len(k) + 1) : SubSeq(s, i, i + Len(k) - 1) = k

\* any(k in s for k in ks)
AnyIn(ks, s) == \E k \in ks : Contains(s, k)

(***************************************************************************)
(* Field Matcher: get_value_for_field of the two variants.                 *)
(***************************************************************************)
Categories == <<"name", "email", "phone", "aadhaar", "pan", "address", "pincode", "date">>

\* the keyword lists of form_filler_sync.py, in the order of the if statements
KeywordsSync ==
  << {"name", "naam", "full name", "your name", "applicant"},
     {"email", "e-mail", "mail", "electronic"},
     {"phone", "mobile", "contact", "telephone", "cell"},
     {"aadhaar", "aadhar", "uid", "unique", "adhaar", "Aadhar number", "Aadhar"},
     {"pan", "permanent account"},
     {"address", "location", "residence", "street"},
     {"pin", "postal", "zip", "pincode"},
     {"dob", "birth", "date"} >>

\* the keyword lists of form_filler.py, in the order of the if/elif chain
KeywordsAsync ==
  << {"name", "naam", "full name", "your name", "applicant name"},
     {"email", "e-mail", "mail", "electronic"},
     {"phone", "mobile", "contact", "telephone", "cell"},
     {"aadhaar", "aadhar", "uid", "unique id"},
     {"pan", "permanent account"},
     {"address", "location", "residence", "residential"},
     {"pin", "postal", "zip", "pincode"},
     {"dob", "birth", "date of birth"} >>

Keywords(v) == IF v = "sync" THEN KeywordsSync ELSE KeywordsAsync

RECURSIVE SyncFrom(_, _, _)
\* form_filler_sync.py: a sequence of independent if statements, each returning
\* only when the key is in data; otherwise control falls to the next if
SyncFrom(i, field, data) ==
  IF i > Len(Categories) THEN ""
  ELSE IF AnyIn(KeywordsSync[i], field) /\ Categories[i] \in DOMAIN data
         THEN data[Categories[i]]
         ELSE SyncFrom(i + 1, field, data)

GetValueForFieldSync(field_name, data) == SyncFrom(1, Lower(field_name), data)

RECURSIVE AsyncFrom(_, _, _)
\* form_filler.py: an if/elif chain, each branch returning data.get(key, '')
AsyncFrom(i, field, data) ==
  IF i > Len(Categories) THEN ""
  ELSE IF AnyIn(KeywordsAsync[i], field)
         THEN (IF Categories[i] \in DOMAIN data THEN data[Categories[i]] ELSE "")
         ELSE AsyncFrom(i + 1, field, data)

GetValueForFieldAsync(field_name, data) == AsyncFrom(1, Lower(field_name), data)

GetValueForField(v, field_name, data) ==
  IF v = "sync" THEN GetValueForFieldSync(field_name, data)
  ELSE GetValueForFieldAsync(field_name, data)

(***************************************************************************)
(* Inputs of a fill session.                                               *)
(***************************************************************************)
FullData ==
  [k \in {Categories[i] : i \in 1..Len(Categories)} |->
     CASE k = "name" -> "John Smith"
       [] k = "email" -> "john@x.com"
       [] k = "phone" -> "9876543210"
       [] k = "aadhaar" -> "1234 5678 9012"
       [] k = "pan" -> "ABCDE1234F"
       [] k = "address" -> "12 Main Road"
       [] k = "pincode" -> "600001"
       [] k = "date" -> "01/02/1990"]

Restrict(f, S) == [k \in (DOMAIN f) \cap S |-> f[k]]

EmptyData == Restrict(FullData, {})

\* the FieldMaps a session is run with
DataPool ==
  {Restrict(FullData, S) :
     S \in {{}, DOMAIN FullData, {"email"}, {"name", "phone"}, {"aadhaar", "date"}}}

\* inner texts an element carrying a question title can have
TitleTexts ==
  {"Full Name *", "Email", " Phone number ", "What is your Aadhaar Number?",
   "Name and email", "Favourite colour", "Date", "*", " ", "", "A", "Q *"}

\* inner texts of the label sub-elements of a choice control
OptionTexts == {"Other", " JOHN@X.COM ", "Date 01/02/1990 confirmed"}

(***************************************************************************)
(* State of a fill session (fill_form of either variant).                  *)
(***************************************************************************)
VARIABLES
  variant,      \* "sync" (form_filler_sync.py) or "async" (form_filler.py)
  pc,           \* position in fill_form
  data_dict,    \* the FieldMap argument
  browser,      \* "none", "open", "closed" (by close() or by the user), "stopped" (with Playwright)
  pageGroups,   \* number of [role="listitem"] elements of the loaded page
  nGroups,      \* len(questions)
  idx,          \* index of the group being processed
  src,          \* label source being consulted by the inspection
  q_text,       \* derived label of the current group
  total,
  filled,
  value,        \* value resolved by the matcher for the current group
  strat,        \* strategy of the filler in progress (rank of spec section 4.5)
  sel,          \* index in input_selectors (sync strategy 1)
  cand,         \* candidate controls of the current query still to try
  success,      \* return value of the filler for the current group
  screenshot,   \* screenshot_name once captured
  outcome,      \* "none", "returned", "raised"
  err,          \* the exception in flight in the inner except block
  surfaced,     \* the exception seen by the caller
  errShot,      \* the screenshot-on-error attempt: "none", "ok", "failed"
  polls,        \* liveness probes answered so far by the open browser
  holdExit,     \* history: what ended the hold loop: "none", "probe", "interrupt"
  m_seen,       \* history: an earlier call of the matcher, its arguments and result
  tried,        \* history: strategies started for the current group
  lateAttempt,  \* history: a candidate control was tried after the filler succeeded
  typed,        \* history: how the strategy-1 sequence that completed ended, "none" if none did
  skipped,      \* history: candidates were left untried because another one raised
  fillCalls,    \* history: calls of the filler in the session
  nLabelled,    \* history: groups for which the inspection derived a label
  nNoValue,     \* history: groups skipped because the matcher gave no value
  groupsDone    \* history: groups whose iteration ended

sessVars == <<variant, data_dict, browser, pageGroups, nGroups, screenshot,
              outcome, err, surfaced, errShot, polls, holdExit, m_seen>>
loopVars == <<idx, src, q_text, total, filled, value, fillCalls, nLabelled, nNoValue,
              groupsDone>>
fillerVars == <<strat, sel, cand, success, tried, lateAttempt, typed, skipped>>
fillVars == <<pc, sessVars, loopVars, fillerVars>>

(***************************************************************************)
(* State of a text acquisition (SmartPDFExtractor.extract_text); fragments *)
(* are kept by their lengths.                                              *)
(***************************************************************************)
VARIABLES
  a_pc,         \* position in extract_text
  texts,        \* the list texts: len(t) of each accepted fragment
  a_pages,      \* pages the method in progress has produced
  a_ret,        \* len(self.text) once returned, -1 before
  a_tried,      \* history: methods attempted
  a_failed,     \* history: methods that raised
  a_sumAtCheck  \* history: sum(len(t)) when the OCR condition was evaluated, -1 before

acqVars == <<a_pc, texts, a_pages, a_ret, a_tried, a_failed, a_sumAtCheck>>

(***************************************************************************)
(* State of a field extraction (SmartPDFExtractor.extract_structured_data, *)
(* run up to twice on the same text).                                      *)
(***************************************************************************)
VARIABLES
  e_pc,         \* position in extract_structured_data
  e_text,       \* self.text
  e_data,       \* self.data
  qa_pipeline,  \* self.qa_pipeline: "None" or "loaded"
  bertMode,     \* the environment: "available", "unavailable", "flaky"
  qaScore,      \* the score (in hundredths) the question-answering model reports
  e_runs,       \* runs of extract_structured_data started
  e_first,      \* history: the FieldMap the first run returned
  potential_names, \* the list potential_names of the current run
  nameS1,       \* history: what Name Strategy 1 returned in the current run ("" for None)
  nameVia,      \* history: the strategy that gave the name: "none", "s1", "bert"
  initLoads     \* history: attempts of _init_bert to load the model

extVars == <<e_pc, e_text, e_data, qa_pipeline, bertMode, qaScore, e_runs, e_first,
             potential_names, nameS1, nameVia, initLoads>>

(***************************************************************************)
(* State of the /extract endpoint (main.py extract_pdf_data): the upload   *)
(* directory and the requests being handled on the one event loop.         *)
(***************************************************************************)
VARIABLES
  u_pc,         \* position of each request in extract_pdf_data
  u_name,       \* file.filename of each request
  upload_dir,   \* names of the files that exist in UPLOAD_DIR
  u_status,     \* what the request ended with: "none", "200", "400", "500", "error"
  u_left,       \* history: the request's file existed when the request ended
  u_removeRaised \* history: an os.remove of the request raised on an existing file

upVars == <<u_pc, u_name, upload_dir, u_status, u_left, u_removeRaised>>

Requests == 1..MaxRequests

\* filenames of uploads
FileNames == {"a.pdf", "Scan.PDF", "notes.txt"}

\* the state of the requests' locals before the handler runs
UploadLocalsInit ==
  /\ u_status = [r \in Requests |-> "none"]
  /\ u_left = [r \in Requests |-> FALSE]
  /\ u_removeRaised = [r \in Requests |-> FALSE]

\* no request is being handled
IdleUpload ==
  /\ u_pc = [r \in Requests |-> "off"]
  /\ u_name = [r \in Requests |-> ""]
  /\ upload_dir = {}
  /\ UploadLocalsInit

Variants == {"sync", "async"}

\* no text acquisition in progress
IdleAcquire ==
  /\ a_pc = "off"
  /\ texts = <<>>
  /\ a_pages = 0
  /\ a_ret = -1
  /\ a_tried = {}
  /\ a_failed = {}
  /\ a_sumAtCheck = -1

\* no field extraction in progress
IdleExtract ==
  /\ e_pc = "off"
  /\ e_text = ""
  /\ e_data = EmptyData
  /\ qa_pipeline = "None"
  /\ bertMode = "unavailable"
  /\ qaScore = 0
  /\ e_runs = 0
  /\ e_first = EmptyData
  /\ potential_names = <<>>
  /\ nameS1 = ""
  /\ nameVia = "none"
  /\ initLoads = 0

\* no call of the matcher is remembered
NoCall == [label |-> "", value |-> "", data |-> EmptyData, made |-> FALSE, between |-> FALSE]

\* the counters and locals of fill_form before the session starts
FillLocalsInit ==
  /\ browser = "none"
  /\ pageGroups = 0
  /\ nGroups = 0
  /\ idx = 0
  /\ src = 0
  /\ q_text = ""
  /\ total = 0
  /\ filled = 0
  /\ value = ""
  /\ strat = 0
  /\ sel = 0
  /\ cand = 0
  /\ success = FALSE
  /\ screenshot = ""
  /\ outcome = "none"
  /\ err = "none"
  /\ surfaced = "none"
  /\ errShot = "none"
  /\ polls = 0
  /\ holdExit = "none"
  /\ m_seen = NoCall
  /\ tried = {}
  /\ lateAttempt = FALSE
  /\ typed = "none"
  /\ skipped = FALSE
  /\ fillCalls = 0
  /\ nLabelled = 0
  /\ nNoValue = 0
  /\ groupsDone = 0

\* no fill session in progress
IdleFill ==
  /\ pc = "off"
  /\ variant = "sync"
  /\ data_dict = EmptyData
  /\ FillLocalsInit

InitFill ==
  /\ IdleAcquire
  /\ IdleExtract
  /\ IdleUpload
  /\ variant \in Variants
  /\ data_dict \in DataPool
  /\ pc = "idle"
  /\ FillLocalsInit

(***************************************************************************)
(* fill_form: launch, page load, enumeration of the question groups.       *)
(***************************************************************************)
\* len(input_selectors) of form_filler_sync.py
NumInputSelectors == 6
\* heading, then the four fallback selectors of _get_question_text
NumLabelSources == 5

\* mutant of AfterWith: leaving the with block stops nothing
AfterWith_Nothing(b) == b

\* "with sync_playwright() as p:" / "async with async_playwright() as p:" is
\* left, by a return or by an exception: Playwright is stopped and a browser
\* it launched that is still open is terminated with it
AfterWith(b) == IF b = "open" THEN "stopped" ELSE b

\* control enters the inner "except Exception as e" block with exception e
EnterError(e) ==
  /\ err' = e
  /\ pc' = IF variant = "sync" THEN "errShot" ELSE "errClose"

\* p.chromium.launch(...)
Launch ==
  /\ pc = "idle"
  /\ \/ /\ browser' = "open"
        /\ pc' = "launched"
        /\ UNCHANGED <<outcome, surfaced>>
     \/ /\ outcome' = "raised"
        /\ surfaced' = "launch"
        /\ pc' = "done"
        /\ UNCHANGED browser
  /\ UNCHANGED <<variant, data_dict, pageGroups, nGroups, screenshot, err, errShot, polls, holdExit, m_seen>>
  /\ UNCHANGED <<loopVars, fillerVars>>
  /\ UNCHANGED <<acqVars, extVars, upVars>>

\* browser.new_context(...); context.new_page(): outside the inner try
NewPage ==
  /\ pc = "launched"
  /\ \/ /\ pc' = "created"
        /\ UNCHANGED <<outcome, surfaced>>
     \/ /\ outcome' = "raised"
        /\ surfaced' = "context"
        /\ pc' = "done"
  /\ browser' = IF pc' = "done" THEN AfterWith(browser) ELSE browser
  /\ UNCHANGED <<variant, data_dict, pageGroups, nGroups, screenshot, err,
                 errShot, polls, holdExit, m_seen>>
  /\ UNCHANGED <<loopVars, fillerVars>>
  /\ UNCHANGED <<acqVars, extVars, upVars>>

\* page.goto(url, ...); page.wait_for_timeout(3000)
Goto ==
  /\ pc = "created"
  /\ \/ /\ \E n \in 0..MaxGroups : pageGroups' = n
        /\ pc' = IF variant = "sync" THEN "wait" ELSE "enumerate"
        /\ UNCHANGED err
     \/ /\ EnterError("goto")
        /\ UNCHANGED pageGroups
  /\ UNCHANGED <<variant, data_dict, browser, nGroups, screenshot, outcome, surfaced,
                 errShot, polls, holdExit, m_seen>>
  /\ UNCHANGED <<loopVars, fillerVars>>
  /\ UNCHANGED <<acqVars, extVars, upVars>>

\* sync only: page.wait_for_selector('[role="listitem"]', timeout=10000)
WaitForSelector ==
  /\ pc = "wait"
  /\ \/ /\ pageGroups > 0
        /\ pc' = "enumerate"
        /\ UNCHANGED err
     \/ EnterError("wait")   \* no list item became visible within the timeout
  /\ UNCHANGED <<variant, data_dict, browser, pageGroups, nGroups, screenshot, outcome,
                 surfaced, errShot, polls, holdExit, m_seen>>
  /\ UNCHANGED <<loopVars, fillerVars>>
  /\ UNCHANGED <<acqVars, extVars, upVars>>

\* questions = page.query_selector_all('[role="listitem"]'); filled = 0; total = 0
Enumerate ==
  /\ pc = "enumerate"
  /\ \/ /\ nGroups' = pageGroups
        /\ pc' = "loop"
        /\ UNCHANGED err
     \/ /\ EnterError("query")
        /\ UNCHANGED nGroups
  /\ UNCHANGED <<variant, data_dict, browser, pageGroups, screenshot, outcome, surfaced,
                 errShot, polls, holdExit, m_seen>>
  /\ UNCHANGED <<loopVars, fillerVars>>
  /\ UNCHANGED <<acqVars, extVars, upVars>>

(***************************************************************************)
(* The per-group loop: inspection, count, matching.                        *)
(***************************************************************************)
\* for idx, q in enumerate(questions, 1): the next group
NextGroup ==
  /\ pc = "loop"
  /\ idx < nGroups
  /\ idx' = idx + 1
  /\ src' = 1
  /\ pc' = "inspect"
  /\ UNCHANGED <<q_text, value, total, filled, fillCalls, nLabelled, nNoValue, groupsDone>>
  /\ UNCHANGED fillerVars
  /\ UNCHANGED sessVars
  /\ UNCHANGED <<acqVars, extVars, upVars>>

\* the loop left while groups remain
LoopExit_Early ==
  /\ pc = "loop"
  /\ idx <= nGroups
  /\ pc' = "shot"
  /\ UNCHANGED <<sessVars, loopVars, fillerVars>>
  /\ UNCHANGED <<acqVars, extVars, upVars>>

\* the loop is exhausted
LoopExit ==
  /\ pc = "loop"
  /\ idx = nGroups
  /\ pc' = "shot"
  /\ UNCHANGED <<sessVars, loopVars, fillerVars>>
  /\ UNCHANGED <<acqVars, extVars, upVars>>

\* the locals of an iteration go out of use
ResetGroup ==
  /\ src' = 0
  /\ q_text' = ""
  /\ value' = ""
  /\ strat' = 0 /\ sel' = 0 /\ cand' = 0 /\ success' = FALSE
  /\ tried' = {} /\ lateAttempt' = FALSE
  /\ typed' = "none" /\ skipped' = FALSE

\* the iteration of the current group ends: "continue", or the end of the body
EndGroup ==
  /\ pc' = "loop"
  /\ groupsDone' = groupsDone + 1
  /\ ResetGroup

\* the group's iteration ends without a label: "continue" before total += 1
SkipUnlabelled ==
  /\ EndGroup
  /\ UNCHANGED nLabelled

\* the inspection returned label t
LabelDerived(t) ==
  IF t = ""
    THEN SkipUnlabelled
    ELSE /\ q_text' = t
         /\ pc' = "count"
         /\ nLabelled' = nLabelled + 1
         /\ UNCHANGED <<src, value, groupsDone, fillerVars>>

\* _get_question_text (sync): the next label source of the group
NextSource ==
  IF src < NumLabelSources
    THEN /\ src' = src + 1
         /\ UNCHANGED <<pc, q_text, value, nLabelled, groupsDone, fillerVars>>
    ELSE LabelDerived("")

\* form_filler_sync.py _get_question_text, one source per step; o is what the
\* source's element gives: "absent", "raises", or its inner text
GetQuestionTextSync(o) ==
  IF o \in {"absent", "raises"} THEN NextSource
  ELSE LET text == Strip(o) IN
       IF src = 1
         THEN IF text # "" THEN LabelDerived(Strip(RemoveChar(text, "*")))
              ELSE NextSource
         ELSE IF text # "" /\ Len(text) > 1
                THEN LabelDerived(Strip(RemoveChar(text, "*")))
                ELSE NextSource

\* form_filler.py lines 80-88: the heading only
GetQuestionTextAsync(o) ==
  IF o \in {"absent", "raises"} THEN SkipUnlabelled
  ELSE LET t == Lower(Strip(RemoveChar(Strip(o), "*"))) IN
       IF t = "" \/ Len(t) < 2 THEN SkipUnlabelled
       ELSE LabelDerived(t)

Inspect ==
  /\ pc = "inspect"
  /\ \E o \in {"absent", "raises"} \cup TitleTexts :
       IF variant = "sync" THEN GetQuestionTextSync(o) ELSE GetQuestionTextAsync(o)
  /\ UNCHANGED <<idx, total, filled, fillCalls, nNoValue>>
  /\ UNCHANGED sessVars
  /\ UNCHANGED <<acqVars, extVars, upVars>>

\* mutant of CountGroup: the increment of total is missing
CountGroup_NoIncrement ==
  /\ pc = "count"
  /\ pc' = "match"
  /\ UNCHANGED <<idx, src, q_text, total, filled, value, fillCalls, nLabelled, nNoValue,
                 groupsDone>>
  /\ UNCHANGED <<sessVars, fillerVars>>
  /\ UNCHANGED <<acqVars, extVars, upVars>>

\* total += 1
CountGroup ==
  /\ pc = "count"
  /\ total' = total + 1
  /\ pc' = "match"
  /\ UNCHANGED <<idx, src, q_text, filled, value, fillCalls, nLabelled, nNoValue, groupsDone>>
  /\ UNCHANGED <<sessVars, fillerVars>>
  /\ UNCHANGED <<acqVars, extVars, upVars>>

\* mutant of Match: the "if not value: continue" is missing
Match_NoSkip ==
  /\ pc = "match"
  /\ value' = GetValueForField(variant, Lower(q_text), data_dict)
  /\ pc' = "fillQuery"
  /\ fillCalls' = fillCalls + 1
  /\ strat' = 1
  /\ sel' = 1
  /\ UNCHANGED <<src, q_text, nNoValue, groupsDone>>
  /\ UNCHANGED <<cand, success, tried, lateAttempt, typed, skipped>>
  /\ UNCHANGED <<idx, total, filled, nLabelled>>
  /\ UNCHANGED sessVars
  /\ UNCHANGED <<acqVars, extVars, upVars>>

\* value = self.get_value_for_field(q_text_lower, data_dict); if not value: continue
Match ==
  /\ pc = "match"
  /\ LET v == GetValueForField(variant, Lower(q_text), data_dict) IN
       IF v = ""
         THEN /\ EndGroup
              /\ nNoValue' = nNoValue + 1
              /\ UNCHANGED fillCalls
         ELSE /\ value' = v
              /\ pc' = "fillQuery"
              /\ fillCalls' = fillCalls + 1
              /\ strat' = 1
              /\ sel' = 1
              /\ UNCHANGED <<src, q_text, nNoValue, groupsDone>>
              /\ UNCHANGED <<cand, success, tried, lateAttempt, typed, skipped>>
  /\ UNCHANGED <<idx, total, filled, nLabelled>>
  /\ UNCHANGED sessVars
  /\ UNCHANGED <<acqVars, extVars, upVars>>
(***************************************************************************)
(* Field Filler: fill_field (async) and _fill_field_advanced (sync), one   *)
(* query or one candidate control per step.  Strategies carry the rank of  *)
(* the specification's list: 1 direct input, 2 choice, 3 list selection,   *)
(* 4 editable region, 5 script write.                                      *)
(***************************************************************************)
\* the strategies each variant implements, in the order of its code
StrategiesOf(v) == IF v = "sync" THEN <<1, 4, 5>> ELSE <<1, 2, 3>>

\* mutant of NextStrat: the last two strategies of each variant are exchanged
NextStrat_Swapped(v, s) ==
  LET ss == IF v = "sync" THEN <<1, 5, 4>> ELSE <<1, 3, 2>>
      i == CHOOSE j \in 1..Len(ss) : ss[j] = s
  IN IF i < Len(ss) THEN ss[i + 1] ELSE 0

\* the strategy the code goes to after strategy s; 0 when s is the last one
NextStrat(v, s) ==
  LET ss == StrategiesOf(v)
      i == CHOOSE j \in 1..Len(ss) : ss[j] = s
  IN IF i < Len(ss) THEN ss[i + 1] ELSE 0

\* what manipulating one candidate control can give, per strategy
CandOutcomes(v, s) ==
  CASE s = 1 /\ v = "async" ->
         {[kind |-> k, text |-> ""] : k \in {"hidden", "raises", "ok"}}
    [] s = 1 /\ v = "sync" ->
         {[kind |-> k, text |-> ""] :
            k \in {"hidden", "raises", "ok", "verify_mismatch", "verify_raises"}}
    [] s = 2 ->
         {[kind |-> "text_raises", text |-> ""]}
           \cup {[kind |-> k, text |-> t] : k \in {"ok", "click_raises"}, t \in OptionTexts}
    [] s = 3 -> {[kind |-> k, text |-> ""] : k \in {"ok", "raises"}}
    [] OTHER -> {[kind |-> k, text |-> ""] : k \in {"hidden", "raises", "ok"}}

\* the strategy in progress is over without success
EndStrategy ==
  IF NextStrat(variant, strat) = 0
    THEN /\ pc' = "fillRet"
         /\ UNCHANGED <<strat, sel>>
    ELSE /\ pc' = "fillQuery"
         /\ strat' = NextStrat(variant, strat)
         /\ sel' = 1

\* the filler returns True
Succeed ==
  /\ success' = TRUE
  /\ pc' = "fillRet"
  /\ UNCHANGED <<strat, sel>>

\* mutant of QueryControls: an exception of the strategy-1 query is not caught
\* by the loop and ends the session
QueryControls_Unguarded ==
  /\ pc = "fillQuery"
  /\ \/ /\ \E n \in 0..MaxCand : cand' = n
        /\ tried' = tried \cup {strat}
        /\ pc' = "fillCand"
        /\ UNCHANGED <<strat, sel, err>>
     \/ IF strat = 1
          THEN /\ EnterError("group")
               /\ UNCHANGED <<strat, sel, cand, tried>>
          ELSE /\ cand' = 0
               /\ tried' = tried \cup {strat}
               /\ EndStrategy
               /\ UNCHANGED err
  /\ UNCHANGED <<src, q_text, value, groupsDone, success, lateAttempt, typed, skipped>>
  /\ UNCHANGED <<idx, total, filled, fillCalls, nLabelled, nNoValue>>
  /\ UNCHANGED <<variant, data_dict, browser, pageGroups, nGroups, screenshot, outcome,
                 surfaced, errShot, polls, holdExit, m_seen>>
  /\ UNCHANGED <<acqVars, extVars, upVars>>

\* question_element.query_selector_all(...) of the strategy in progress
QueryControls ==
  /\ pc = "fillQuery"
  /\ \/ /\ \E n \in 0..MaxCand : cand' = n
        /\ tried' = tried \cup {strat}
        /\ pc' = "fillCand"
        /\ UNCHANGED <<strat, sel, src, q_text, value, groupsDone>>
        /\ UNCHANGED <<success, lateAttempt, typed, skipped>>
     \/ \* the query raises: strategy 1 queries outside any try, so the exception
        \* leaves the filler and is caught by the loop; the others are guarded
        IF strat = 1
          THEN EndGroup
          ELSE /\ cand' = 0
               /\ tried' = tried \cup {strat}
               /\ EndStrategy
               /\ UNCHANGED <<src, q_text, value, groupsDone>>
               /\ UNCHANGED <<success, lateAttempt, typed, skipped>>
  /\ UNCHANGED <<idx, total, filled, fillCalls, nLabelled, nNoValue>>
  /\ UNCHANGED sessVars
  /\ UNCHANGED <<acqVars, extVars, upVars>>

\* mutant of TryGuardedCandidate: a verification that does not find the value
\* makes the filler go on to the next candidate
TryGuardedCandidate_VerifyRequired(o) ==
  IF o.kind \in {"hidden", "raises", "verify_mismatch", "verify_raises"}
    THEN /\ cand' = cand - 1
         /\ UNCHANGED <<pc, strat, sel, success>>
    ELSE /\ Succeed
         /\ UNCHANGED cand

\* strategy 1 of either variant, strategies 4 and 5 of the sync variant: each
\* candidate is guarded by its own try, "continue" on an exception
TryGuardedCandidate(o) ==
  IF o.kind \in {"hidden", "raises"}
    THEN /\ cand' = cand - 1
         /\ UNCHANGED <<pc, strat, sel, success>>
    ELSE \* typed or written; a failed verification still returns True
         /\ Succeed
         /\ UNCHANGED cand

\* strategy 2 (async): one try around the whole loop over the labels
TryChoice(o) ==
  CASE o.kind = "text_raises" ->
         /\ cand' = 0
         /\ EndStrategy
         /\ UNCHANGED success
    [] o.kind # "text_raises" /\ ~Contains(Lower(Strip(o.text)), Lower(value)) ->
         /\ cand' = cand - 1
         /\ UNCHANGED <<pc, strat, sel, success>>
    [] o.kind = "ok" /\ Contains(Lower(Strip(o.text)), Lower(value)) ->
         /\ Succeed
         /\ UNCHANGED cand
    [] OTHER ->   \* label.click() raises
         /\ cand' = 0
         /\ EndStrategy
         /\ UNCHANGED success

\* strategy 3 (async): one try around the whole loop over the dropdowns
TryDropdown(o) ==
  IF o.kind = "ok"
    THEN /\ Succeed
         /\ UNCHANGED cand
    ELSE /\ cand' = 0
         /\ EndStrategy
         /\ UNCHANGED success

\* the strategy-1 sequence (scroll, focus, clear, type) of the candidate completed
Typed(o) == strat = 1 /\ o.kind \in {"ok", "verify_mismatch", "verify_raises"}

\* an exception of the candidate ends the loop of a strategy whose try is
\* around the whole loop (strategies 2 and 3 of the async variant)
AbortsStrategy(o) ==
  \/ strat = 2 /\ o.kind = "text_raises"
  \/ strat = 2 /\ o.kind = "click_raises" /\ Contains(Lower(Strip(o.text)), Lower(value))
  \/ strat = 3 /\ o.kind # "ok"

\* the next candidate control of the current query
TryCandidate ==
  /\ pc = "fillCand"
  /\ cand > 0
  /\ \E o \in CandOutcomes(variant, strat) :
       /\ CASE strat = 2 -> TryChoice(o)
            [] strat = 3 -> TryDropdown(o)
            [] OTHER -> TryGuardedCandidate(o)
       /\ typed' = IF Typed(o) THEN o.kind ELSE typed
       /\ skipped' = (skipped \/ (AbortsStrategy(o) /\ cand > 1))
  /\ lateAttempt' = (lateAttempt \/ success)
  /\ UNCHANGED tried
  /\ UNCHANGED loopVars
  /\ UNCHANGED sessVars
  /\ UNCHANGED <<acqVars, extVars, upVars>>

\* the candidates of the current query are exhausted
ExhaustCandidates ==
  /\ pc = "fillCand"
  /\ cand = 0
  /\ IF variant = "sync" /\ strat = 1 /\ sel < NumInputSelectors
       THEN /\ sel' = sel + 1
            /\ pc' = "fillQuery"
            /\ UNCHANGED strat
       ELSE EndStrategy
  /\ UNCHANGED <<cand, success, tried, lateAttempt, typed, skipped>>
  /\ UNCHANGED loopVars
  /\ UNCHANGED sessVars
  /\ UNCHANGED <<acqVars, extVars, upVars>>

\* a filler that returned False aborts the session
FillReturn_RaisesOnFailure ==
  /\ pc = "fillRet"
  /\ IF success
       THEN /\ filled' = filled + 1
            /\ EndGroup
            /\ UNCHANGED sessVars
       ELSE /\ EnterError("fill")
            /\ UNCHANGED <<variant, data_dict, browser, pageGroups, nGroups, screenshot,
                           outcome, surfaced, errShot, polls, holdExit, m_seen>>
            /\ UNCHANGED <<filled, src, q_text, value, groupsDone, fillerVars>>
  /\ UNCHANGED <<idx, total, fillCalls, nLabelled, nNoValue>>
  /\ UNCHANGED <<acqVars, extVars, upVars>>

\* back in fill_form: if success: filled += 1
FillReturn ==
  /\ pc = "fillRet"
  /\ filled' = IF success THEN filled + 1 ELSE filled
  /\ EndGroup
  /\ UNCHANGED <<idx, total, fillCalls, nLabelled, nNoValue>>
  /\ UNCHANGED sessVars
  /\ UNCHANGED <<acqVars, extVars, upVars>>

(***************************************************************************)
(* fill_form: screenshot, close or hold, and the error path.               *)
(***************************************************************************)
\* page.screenshot(path=..., full_page=True)
Screenshot ==
  /\ pc = "shot"
  /\ \/ /\ screenshot' = "filled_form.png"
        /\ pc' = IF variant = "sync" THEN "hold" ELSE "close"
        /\ UNCHANGED err
     \/ /\ EnterError("shot")
        /\ UNCHANGED screenshot
  /\ UNCHANGED <<variant, data_dict, browser, pageGroups, nGroups, outcome, surfaced,
                 errShot, polls, holdExit, m_seen>>
  /\ UNCHANGED <<loopVars, fillerVars>>
  /\ UNCHANGED <<acqVars, extVars, upVars>>

\* async: await browser.close(); return filled, total, screenshot_name
CloseAndReturn ==
  /\ pc = "close"
  /\ \/ /\ browser' = "closed"
        /\ outcome' = "returned"
        /\ pc' = "done"
        /\ UNCHANGED err
     \/ /\ EnterError("close")
        /\ UNCHANGED <<browser, outcome>>
  /\ UNCHANGED <<variant, data_dict, pageGroups, nGroups, screenshot, surfaced, errShot,
                 polls, holdExit, m_seen>>
  /\ UNCHANGED <<loopVars, fillerVars>>
  /\ UNCHANGED <<acqVars, extVars, upVars>>

\* the hold loop left after a probe that answered
ProbeAlive_Returns ==
  /\ pc \in {"hold", "errHold"}
  /\ browser = "open"
  /\ polls < MaxPolls
  /\ polls' = polls + 1
  /\ IF pc = "hold"
       THEN /\ outcome' = "returned"
            /\ pc' = "done"
       ELSE /\ pc' = "errClose"
            /\ UNCHANGED outcome
  /\ UNCHANGED <<variant, data_dict, browser, pageGroups, nGroups, screenshot,
                 err, surfaced, errShot, holdExit, m_seen>>
  /\ UNCHANGED <<loopVars, fillerVars>>
  /\ UNCHANGED <<acqVars, extVars, upVars>>

\* sync: page.title() answers; time.sleep(1)
ProbeAlive ==
  /\ pc \in {"hold", "errHold"}
  /\ browser = "open"
  /\ polls < MaxPolls
  /\ polls' = polls + 1
  /\ UNCHANGED <<pc, variant, data_dict, browser, pageGroups, nGroups, screenshot,
                 outcome, err, surfaced, errShot, holdExit, m_seen>>
  /\ UNCHANGED <<loopVars, fillerVars>>
  /\ UNCHANGED <<acqVars, extVars, upVars>>

\* the hold loop is left; after it the normal path returns, the error path closes
LeaveHold(how) ==
  /\ holdExit' = how
  /\ IF pc = "hold"
       THEN /\ outcome' = "returned"
            /\ pc' = "done"
       ELSE /\ pc' = "errClose"
            /\ UNCHANGED outcome

\* sync: page.title() raises (the page or the browser is gone): break
ProbeFails ==
  /\ pc \in {"hold", "errHold"}
  /\ \E b \in {"closed", browser} :
       browser' = IF pc = "hold" THEN AfterWith(b) ELSE b
  /\ LeaveHold("probe")
  /\ UNCHANGED <<variant, data_dict, pageGroups, nGroups, screenshot, err, surfaced,
                 errShot, polls, m_seen>>
  /\ UNCHANGED <<loopVars, fillerVars>>
  /\ UNCHANGED <<acqVars, extVars, upVars>>

\* sync: KeyboardInterrupt during the hold loop
Interrupt ==
  /\ pc \in {"hold", "errHold"}
  /\ LeaveHold("interrupt")
  /\ browser' = IF pc = "hold" THEN AfterWith(browser) ELSE browser
  /\ UNCHANGED <<variant, data_dict, pageGroups, nGroups, screenshot, err,
                 surfaced, errShot, polls, m_seen>>
  /\ UNCHANGED <<loopVars, fillerVars>>
  /\ UNCHANGED <<acqVars, extVars, upVars>>

\* sync: try: page.screenshot(path=.../error.png) except: pass
ErrorScreenshot ==
  /\ pc = "errShot"
  /\ errShot' \in {"ok", "failed"}
  /\ pc' = "errHold"
  /\ UNCHANGED <<variant, data_dict, browser, pageGroups, nGroups, screenshot, outcome,
                 err, surfaced, polls, holdExit, m_seen>>
  /\ UNCHANGED <<loopVars, fillerVars>>
  /\ UNCHANGED <<acqVars, extVars, upVars>>

\* browser.close(); raise
ErrorClose ==
  /\ pc = "errClose"
  /\ \/ /\ browser' = "closed"
        /\ surfaced' = err
     \/ /\ surfaced' = "close"   \* close() raises: its exception replaces the one in flight
        /\ browser' = AfterWith(browser)
  /\ outcome' = "raised"
  /\ pc' = "done"
  /\ UNCHANGED <<variant, data_dict, pageGroups, nGroups, screenshot, err, errShot, polls, holdExit, m_seen>>
  /\ UNCHANGED <<loopVars, fillerVars>>
  /\ UNCHANGED <<acqVars, extVars, upVars>>
(***************************************************************************)
(* Properties of the fill session.                                         *)
(***************************************************************************)
InFiller == pc \in {"fillQuery", "fillCand", "fillRet"}

\* the page was loaded: page.goto returned
PageLoaded == pc \notin {"idle", "launched", "created"} /\ err # "goto"
                /\ surfaced \notin {"launch", "context"}

\* C1: in both variants, at every point of the loop and in the result, filled
\* never exceeds total: a group is counted in filled at most once, and only
\* after it was counted in total (filled <= filler calls <= total <= groups
\* reached so far).
C1_FilledLeTotal ==
  /\ filled <= total
  /\ filled <= fillCalls
  /\ fillCalls <= total
  /\ total <= idx

C1_Witness == outcome = "returned" /\ filled = 2 /\ total = 3 /\ fillCalls = 3

\* C5 as stated: the five strategies are tried in the order 1..5, a strategy
\* being attempted only after every strategy of lower rank was attempted (and
\* failed) for the group.
C5_AllFiveInOrder ==
  (InFiller /\ strat >= 1) => \A t \in 1..(strat - 1) : t \in tried

\* the strategies of section 4.5 each variant has code for
C5_Implemented(v) == IF v = "sync" THEN {1, 4, 5} ELSE {1, 2, 3}

\* C5 amended: each variant tries the three strategies it implements (async:
\* direct input, choice, list selection; sync: direct input, editable region,
\* script write) in increasing rank, a strategy being started only after every
\* earlier implemented one was started and ended without success, and no
\* candidate control is tried after the first success.
C5_ImplementedInOrder ==
  InFiller =>
    /\ strat \in C5_Implemented(variant)
    /\ tried \cup {strat} = {t \in C5_Implemented(variant) : t <= strat}
    /\ (pc # "fillRet") => ~success
    /\ ~lateAttempt

\* the sync filler succeeded by its last strategy, for the second group it was called on
C5_Witness ==
  /\ variant = "sync" /\ pc = "fillRet" /\ success /\ strat = 5
  /\ tried = {1, 4, 5} /\ fillCalls = 2 /\ filled = 1

C7_EmptyFieldMap ==
  data_dict = EmptyData =>
    /\ fillCalls = 0
    /\ ~InFiller
    /\ filled = 0
    /\ outcome = "returned" =>
         /\ total = nLabelled
         /\ nNoValue = nLabelled
         /\ screenshot = "filled_form.png"

C7_Witness ==
  /\ data_dict = EmptyData /\ outcome = "returned"
  /\ nGroups = 5 /\ nLabelled = 5 /\ total = 5 /\ filled = 0

\* C11: once the scroll / focus / clear / type sequence of a strategy-1
\* candidate has completed, the filler returns True from strategy 1, whatever
\* the verification of the typed value gave (equal, different, or an
\* exception), and no later strategy or candidate is attempted.
C11_TypedReturnsTrue ==
  typed # "none" =>
    /\ pc = "fillRet"
    /\ success
    /\ strat = 1
    /\ tried = {1}
    /\ ~lateAttempt

\* the sync filler typed into a textarea, the last input selector, and the
\* verification did not find the value
C11_Witness ==
  /\ variant = "sync" /\ pc = "fillRet" /\ success /\ typed = "verify_mismatch"
  /\ sel = NumInputSelectors /\ value = "9876543210"

\* C14: the filler returns False only after every strategy of the variant was
\* started and every candidate control was attempted: an exception of one
\* candidate leaves no other candidate untried.
C14_FalseOnlyAfterAll ==
  (pc = "fillRet" /\ ~success) =>
    /\ tried = C5_Implemented(variant)
    /\ ~skipped

\* C15: only a group whose derived label has at least 2 characters is counted,
\* matched and handed to the filler; a group with an empty or one-character
\* label is skipped, whichever label source gave the text.
C15_ShortLabelSkipped ==
  (pc \in {"count", "match"} \/ InFiller) => Len(q_text) >= 2

\* C17: a session that raised after the browser was launched attempted the
\* screenshot-on-error before holding or closing the browser, whatever that
\* screenshot did, and surfaced the error that caused the failure.
C17_ErrorScreenshotThenSurface ==
  (outcome = "raised" /\ err # "none") =>
    /\ errShot \in {"ok", "failed"}
    /\ surfaced = err

\* C18: a fill session goes through launch, page load, then the groups one at
\* a time in page order (inspection, then matching once a label is derived,
\* then filling once a value is resolved; every earlier group is finished and
\* no later one is begun), then the screenshot, captured only after the last
\* group, then the hold (sync) or the close (async); the result is returned
\* only after the screenshot.
C18_SessionOrder ==
  /\ pc = "idle" => browser = "none"
  /\ pc \in {"idle", "launched", "created", "wait", "enumerate"} =>
       idx = 0 /\ groupsDone = 0 /\ screenshot = "" /\ outcome = "none"
  /\ (pc \in {"inspect", "count", "match"} \/ InFiller) =>
       /\ browser = "open" /\ PageLoaded
       /\ idx \in 1..nGroups /\ groupsDone = idx - 1
       /\ screenshot = "" /\ outcome = "none"
  /\ pc = "inspect" => q_text = "" /\ value = "" /\ strat = 0
  /\ pc \in {"count", "match"} => q_text # "" /\ value = "" /\ strat = 0
  /\ InFiller => q_text # "" /\ value # ""
  /\ pc = "loop" => groupsDone = idx /\ screenshot = ""
  /\ pc = "shot" => groupsDone = nGroups /\ screenshot = ""
  /\ screenshot # "" => idx = nGroups /\ groupsDone = nGroups
  /\ pc \in {"hold", "close"} => screenshot # "" /\ outcome = "none"
  /\ pc = "hold" <=> (variant = "sync" /\ screenshot # "" /\ err = "none" /\ outcome = "none")
  /\ outcome = "returned" =>
       /\ screenshot # "" /\ groupsDone = nGroups
       /\ variant = "async" => browser = "closed"
       /\ variant = "sync" => holdExit # "none"

C18_Witness ==
  /\ outcome = "returned" /\ variant = "async" /\ browser = "closed"
  /\ nGroups = 3 /\ groupsDone = 3 /\ nLabelled = 2 /\ fillCalls = 1
  /\ screenshot = "filled_form.png"

\* C19: in the sync variant, on the normal and on the error path, a step taken
\* in the hold loop either is a probe the open browser answered, which stays
\* in the loop, or is a failed probe or an interrupt, which leaves it at once
\* (the normal path returns, the error path goes on to close and re-raise);
\* fill_form neither returns nor re-raises an error of the session before one
\* of these two events.
C19_InHold == pc \in {"hold", "errHold"}

C19_HoldStep ==
  C19_InHold =>
    IF holdExit' = "none"
      THEN browser = "open" /\ pc' = pc /\ polls' = polls + 1 /\ outcome' = "none"
      ELSE /\ holdExit' \in {"probe", "interrupt"}
           /\ pc = "hold" => pc' = "done" /\ outcome' = "returned"
           /\ pc = "errHold" => pc' = "errClose" /\ outcome' = "none"

C19_HoldUntilProbeFailsOrInterrupt ==
  /\ [](C19_InHold => variant = "sync" /\ holdExit = "none" /\ outcome = "none")
  /\ []((variant = "sync" /\ outcome = "returned") => holdExit # "none")
  /\ []((variant = "sync" /\ outcome = "raised" /\ err # "none") => holdExit # "none")
  /\ [][C19_HoldStep]_<<fillVars, acqVars, extVars, upVars>>

C19_Witness ==
  /\ variant = "sync" /\ outcome = "returned" /\ polls = MaxPolls
  /\ holdExit = "probe" /\ browser = "closed"

C19_WitnessErrorPath ==
  /\ variant = "sync" /\ outcome = "raised" /\ err = "wait" /\ surfaced = "wait"
  /\ polls = MaxPolls /\ holdExit = "interrupt"

\* C20: the step by which the filler is left for a group, by returning False
\* after every strategy failed or by an exception, leaves total and the counts
\* of the earlier groups as they were (the group was counted once, before it
\* was matched), adds to filled only when the filler returned True, and goes
\* on to the next iteration of the loop: no error of the session arises.
C20_LeavesFiller ==
  (InFiller /\ ~InFiller') =>
    /\ pc' = "loop" /\ err' = "none" /\ outcome' = "none"
    /\ idx' = idx /\ groupsDone' = groupsDone + 1
    /\ total' = total /\ nLabelled' = nLabelled /\ nNoValue' = nNoValue
    /\ fillCalls' = fillCalls
    /\ filled' = IF pc = "fillRet" /\ success THEN filled + 1 ELSE filled

C20_FailureCountedOnceAndContinues ==
  /\ []((InFiller \/ pc \in {"match", "loop"}) => total = nLabelled)
  /\ []((InFiller \/ pc = "loop") => total = fillCalls + nNoValue)
  /\ [](InFiller => filled < fillCalls)
  /\ [][C20_LeavesFiller]_<<fillVars, acqVars, extVars, upVars>>

C20_Witness ==
  /\ outcome = "returned" /\ nGroups = 2 /\ fillCalls = 2 /\ filled = 0 /\ total = 2

\* C24 as stated: when fill_form has returned or raised after the browser was
\* launched, the browser was closed by browser.close() or by the user.
C24_ExplicitlyClosed ==
  (outcome # "none" /\ browser # "none") => browser = "closed"

\* C24 amended: no exit of fill_form leaves a launched browser open.  It was
\* closed by browser.close() on the async normal return and whenever the
\* error of the session is surfaced; on the other exits (the context or the
\* page could not be created, the sync normal return, browser.close() raised)
\* it was closed by the user or is terminated when the Playwright context
\* manager is left.
C24_NoBrowserLeftOpen ==
  /\ outcome = "none" => browser \in {"none", "open", "closed"}
  /\ outcome # "none" => browser \in {"none", "closed", "stopped"}
  /\ (outcome # "none" /\ browser = "none") => surfaced = "launch"
  /\ (outcome = "returned" /\ variant = "async") => browser = "closed"
  /\ (outcome = "raised" /\ err \notin {"none", "close"} /\ surfaced = err) =>
       browser = "closed"
  /\ (outcome # "none" /\ browser = "stopped") =>
       \/ surfaced \in {"context", "close"}
       \/ variant = "sync" /\ outcome = "returned"

\* the operator interrupted the hold of a sync session that had no error: the
\* result was returned without browser.close()
C24_Witness ==
  /\ variant = "sync" /\ outcome = "returned" /\ holdExit = "interrupt"
  /\ browser = "stopped" /\ err = "none"

\* the page could not be created
C24_WitnessContext ==
  outcome = "raised" /\ surfaced = "context" /\ browser = "stopped"

(***************************************************************************)
(* The Field Matcher on its own: get_value_for_field applied to labels and *)
(* FieldMaps drawn from bounded sets (the session variables variant,       *)
(* data_dict, q_text and value hold the arguments and the result).         *)
(***************************************************************************)
\* labels the matcher is called with
MatchLabels ==
  {"Name and email", "Email or phone", "Contact address", "Your Name",
   "What is your Aadhaar Number?", "Unique ID", "Residential address", "Company",
   "Pincode of birth place", "Date of issue", "Street and PIN", "Favourite colour",
   "Mobile / UID", "Aadhaar or PAN number", ""}

\* every FieldMap over the eight field names
AllFieldMaps == {Restrict(FullData, S) : S \in SUBSET (DOMAIN FullData)}

InitMatch ==
  /\ IdleAcquire
  /\ IdleExtract
  /\ IdleUpload
  /\ variant \in Variants
  /\ data_dict \in AllFieldMaps
  /\ pc = "m_call"
  /\ FillLocalsInit

\* the session variables the matcher has no access to
matchFrame == <<variant, browser, pageGroups, nGroups, screenshot, outcome, err, surfaced,
                errShot, polls, holdExit>>

\* mutant of MatchCall: the value returned is taken out of the FieldMap
MatchCall_Consuming ==
  /\ pc = "m_call"
  /\ \E l \in MatchLabels :
       /\ q_text' = l
       /\ value' = GetValueForField(variant, l, data_dict)
  /\ data_dict' = Restrict(data_dict, {k \in DOMAIN data_dict : data_dict[k] # value'})
  /\ pc' = "m_ret"
  /\ UNCHANGED <<idx, src, total, filled, fillCalls, nLabelled, nNoValue, groupsDone>>
  /\ UNCHANGED <<matchFrame, m_seen, fillerVars>>
  /\ UNCHANGED <<acqVars, extVars, upVars>>

\* one call get_value_for_field(label, data_dict): the method reads its two
\* arguments only and assigns nothing but its local "field"
MatchCall ==
  /\ pc = "m_call"
  /\ \E l \in MatchLabels :
       /\ q_text' = l
       /\ value' = GetValueForField(variant, l, data_dict)
  /\ pc' = "m_ret"
  /\ UNCHANGED <<idx, src, total, filled, fillCalls, nLabelled, nNoValue, groupsDone>>
  /\ UNCHANGED <<matchFrame, data_dict, m_seen, fillerVars>>
  /\ UNCHANGED <<acqVars, extVars, upVars>>

\* the caller goes on to its next call; the call that returned is kept as the
\* remembered one, or the one remembered before stays
MatchNext ==
  /\ pc = "m_ret"
  /\ pc' = "m_call"
  /\ q_text' = ""
  /\ value' = ""
  /\ \/ m_seen' = [label |-> q_text, value |-> value, data |-> data_dict, made |-> TRUE,
                   between |-> FALSE]
     \/ /\ m_seen.made
        /\ m_seen' = [m_seen EXCEPT !.between = @ \/ q_text # m_seen.label]
  /\ UNCHANGED <<idx, src, total, filled, fillCalls, nLabelled, nNoValue, groupsDone>>
  /\ UNCHANGED <<matchFrame, data_dict, fillerVars>>
  /\ UNCHANGED <<acqVars, extVars, upVars>>

NextMatch == MatchCall \/ MatchNext

\* the categories, by index, with a keyword that is a substring of the lowercased label
C4_Hits(v, l) == {i \in 1..Len(Categories) : AnyIn(Keywords(v)[i], Lower(l))}

\* the value the first such category resolves to; "" when there is none or the
\* FieldMap lacks its key
C4_Expected(v, l, d) ==
  IF C4_Hits(v, l) = {} THEN ""
  ELSE LET i == CHOOSE j \in C4_Hits(v, l) : \A k \in C4_Hits(v, l) : j <= k
       IN IF Categories[i] \in DOMAIN d THEN d[Categories[i]] ELSE ""

\* C4: the matcher's result is that of the first category, in the order name,
\* email, phone, aadhaar, pan, address, pincode, date, with a keyword in the
\* lowercased label: its value, no value when the FieldMap lacks that key, and
\* never the value of a later category.
C4_FirstCategoryWins ==
  pc = "m_ret" => value = C4_Expected(variant, q_text, data_dict)

C13_AadhaarResolved ==
  (pc = "m_ret" /\ 4 \in C4_Hits(variant, q_text)
     /\ C4_Hits(variant, q_text) \cap {1, 2, 3} = {}) =>
    value = IF "aadhaar" \in DOMAIN data_dict THEN data_dict["aadhaar"] ELSE ""

(***************************************************************************)
(* Text Acquisition: SmartPDFExtractor.extract_text.  A page text is kept  *)
(* by len(text) and len(text.strip()).                                     *)
(***************************************************************************)
\* "len(text.strip()) > 50"
MinFragment == 50
\* "sum(len(t) for t in texts) < 200"
OcrFloor == 200
\* convert_from_path(..., first_page=1, last_page=3)
OcrLastPage == 3

\* what a parser or the OCR gives for one page: nothing, a short text, a text
\* that is long only with its surrounding whitespace, and accepted texts
PagePool ==
  {[len |-> 0, strip |-> 0], [len |-> 30, strip |-> 30], [len |-> 60, strip |-> 40],
   [len |-> 51, strip |-> 51], [len |-> 120, strip |-> 120], [len |-> 200, strip |-> 200],
   [len |-> 250, strip |-> 250]}

RECURSIVE SumLen(_)
\* sum(len(t) for t in texts)
SumLen(ts) == IF ts = <<>> THEN 0 ELSE Head(ts) + SumLen(Tail(ts))

\* len("\n\n".join(texts))
JoinLen(ts) == IF ts = <<>> THEN 0 ELSE SumLen(ts) + 2 * (Len(ts) - 1)

InitAcquire ==
  /\ IdleFill
  /\ IdleExtract
  /\ IdleUpload
  /\ a_pc = "start"
  /\ texts = <<>>
  /\ a_pages = 0
  /\ a_ret = -1
  /\ a_tried = {}
  /\ a_failed = {}
  /\ a_sumAtCheck = -1

\* extract_text is called: texts = []; the first try block is entered
StartAcquire ==
  /\ a_pc = "start"
  /\ a_pc' = "pypdf"
  /\ a_tried' = {"pypdf"}
  /\ UNCHANGED <<texts, a_pages, a_ret, a_failed, a_sumAtCheck>>
  /\ UNCHANGED <<fillVars, extVars, upVars>>

\* the position after method m: PDFPlumber after PyPDF2, the OCR condition
\* after PDFPlumber, the join after the OCR
AfterMethod(m) ==
  CASE m = "pypdf" -> "plumber"
    [] m = "plumber" -> "check"
    [] OTHER -> "join"

\* the method in progress is left, by the end of its try block or by its except
LeaveMethod ==
  /\ a_pc' = AfterMethod(a_pc)
  /\ a_pages' = 0
  /\ a_tried' = IF a_pc = "pypdf" THEN a_tried \cup {"plumber"} ELSE a_tried

\* one page of the method in progress: text = page.extract_text() (or
\* image_to_string); if text and len(text.strip()) > 50: texts.append(text)
AcquirePage ==
  /\ a_pc \in {"pypdf", "plumber", "ocr"}
  /\ a_pages < MaxPages
  /\ a_pc = "ocr" => a_pages < OcrLastPage
  /\ \E t \in PagePool :
       texts' = IF t.len > 0 /\ t.strip > MinFragment THEN Append(texts, t.len) ELSE texts
  /\ a_pages' = a_pages + 1
  /\ UNCHANGED <<a_pc, a_ret, a_tried, a_failed, a_sumAtCheck>>
  /\ UNCHANGED <<fillVars, extVars, upVars>>

\* the method in progress has no further page
MethodEnds ==
  /\ a_pc \in {"pypdf", "plumber", "ocr"}
  /\ LeaveMethod
  /\ UNCHANGED <<texts, a_ret, a_failed, a_sumAtCheck>>
  /\ UNCHANGED <<fillVars, extVars, upVars>>

\* mutant of MethodRaises: the OCR block has no except
MethodRaises_OcrUnguarded ==
  /\ a_pc \in {"pypdf", "plumber", "ocr"}
  /\ a_failed' = a_failed \cup {a_pc}
  /\ IF a_pc = "ocr"
       THEN /\ a_pc' = "raised"
            /\ UNCHANGED <<a_pages, a_tried>>
       ELSE LeaveMethod
  /\ UNCHANGED <<texts, a_ret, a_sumAtCheck>>
  /\ UNCHANGED <<fillVars, extVars, upVars>>

\* the method in progress raises (opening the file, parsing, a page, the
\* rasterisation): "except Exception as e: print(...)"; fragments already
\* appended stay
MethodRaises ==
  /\ a_pc \in {"pypdf", "plumber", "ocr"}
  /\ a_failed' = a_failed \cup {a_pc}
  /\ LeaveMethod
  /\ UNCHANGED <<texts, a_ret, a_sumAtCheck>>
  /\ UNCHANGED <<fillVars, extVars, upVars>>

\* mutant of OcrDecision: a total of exactly 200 still goes to the OCR
OcrDecision_Inclusive ==
  /\ a_pc = "check"
  /\ a_sumAtCheck' = SumLen(texts)
  /\ IF texts = <<>> \/ SumLen(texts) <= OcrFloor
       THEN /\ a_pc' = "ocr"
            /\ a_tried' = a_tried \cup {"ocr"}
       ELSE /\ a_pc' = "join"
            /\ UNCHANGED a_tried
  /\ UNCHANGED <<texts, a_pages, a_ret, a_failed>>
  /\ UNCHANGED <<fillVars, extVars, upVars>>

\* if not texts or sum(len(t) for t in texts) < 200:
OcrDecision ==
  /\ a_pc = "check"
  /\ a_sumAtCheck' = SumLen(texts)
  /\ IF texts = <<>> \/ SumLen(texts) < OcrFloor
       THEN /\ a_pc' = "ocr"
            /\ a_tried' = a_tried \cup {"ocr"}
       ELSE /\ a_pc' = "join"
            /\ UNCHANGED a_tried
  /\ UNCHANGED <<texts, a_pages, a_ret, a_failed>>
  /\ UNCHANGED <<fillVars, extVars, upVars>>

\* self.text = "\n\n".join(texts); return self.text
JoinAndReturn ==
  /\ a_pc = "join"
  /\ a_ret' = JoinLen(texts)
  /\ a_pc' = "returned"
  /\ UNCHANGED <<texts, a_pages, a_tried, a_failed, a_sumAtCheck>>
  /\ UNCHANGED <<fillVars, extVars, upVars>>

NextAcquire ==
  \/ StartAcquire \/ AcquirePage \/ MethodEnds \/ MethodRaises
  \/ OcrDecision \/ JoinAndReturn

\* C2: extract_text never raises: whichever of the two parsers and the OCR
\* fail, each failure is caught, the next strategy is still attempted (the
\* second parser always, the OCR whenever the accepted fragments total less
\* than 200 characters), and a string, possibly empty, is returned.
C2_NeverRaises ==
  /\ a_pc # "raised"
  /\ a_pc \in {"plumber", "check", "ocr", "join", "returned"} =>
       {"pypdf", "plumber"} \subseteq a_tried
  /\ a_pc \in {"ocr", "join", "returned"} =>
       ("ocr" \in a_tried <=> a_sumAtCheck < OcrFloor)
  /\ a_failed \subseteq a_tried
  /\ a_pc = "returned" => a_ret >= 0
  /\ (a_pc = "returned" /\ texts = <<>>) => a_ret = 0

\* all three strategies failed, and the empty string was returned
C2_Witness ==
  a_pc = "returned" /\ a_failed = {"pypdf", "plumber", "ocr"} /\ a_ret = 0

\* C21: the OCR is entered only after both parsers ran, whether they ended or
\* raised, and exactly when the fragments accepted by then are none or total
\* less than 200 characters: with a total of 200 or more it is never entered,
\* and the fragments returned are those of the two parsers.
C21_OcrIffBelowFloor ==
  /\ a_pc \in {"start", "pypdf", "plumber", "check"} => "ocr" \notin a_tried
  /\ "ocr" \in a_tried =>
       /\ {"pypdf", "plumber"} \subseteq a_tried
       /\ a_sumAtCheck >= 0 /\ a_sumAtCheck < OcrFloor
       /\ SumLen(texts) >= a_sumAtCheck
  /\ (a_pc \in {"join", "returned"} /\ "ocr" \notin a_tried) =>
       /\ texts # <<>>
       /\ SumLen(texts) >= OcrFloor
       /\ a_sumAtCheck = SumLen(texts)
  /\ a_pc = "ocr" => "ocr" \in a_tried

\* both parsers raised after one of them had accepted exactly 200 characters:
\* no OCR
C21_Witness ==
  /\ a_pc = "returned" /\ a_failed = {"pypdf", "plumber"} /\ "ocr" \notin a_tried
  /\ texts = <<200>> /\ a_ret = 200

\* one fragment of 120 characters from the parsers, the OCR adds another
C21_WitnessOcr ==
  /\ a_pc = "returned" /\ "ocr" \in a_tried /\ a_sumAtCheck = 120
  /\ texts = <<120, 250>>

(***************************************************************************)
(* Field Extractor: the regular expressions of extract_structured_data,    *)
(* matched as re does (leftmost match, greedy quantifiers, backtracking).  *)
(***************************************************************************)
\* \w of re on the characters of the texts
WordSet == AlphaSet \cup DigitSet \cup {"_"}

\* a character class with a greedy quantifier {min,max}; max = -1 for no maximum
Cls(set, min, max) == [kind |-> "cls", set |-> set, min |-> min, max |-> max]
\* \b
WB == [kind |-> "wb", set |-> {}, min |-> 0, max |-> 0]

\* [\s-]?
OptSep == Cls(SpaceSet \cup {"-"}, 0, 1)

\* the patterns of extract_structured_data under re.IGNORECASE, each a list of
\* alternatives in the order re tries them (the optional group of 'phone' is
\* tried present, then absent)
Patterns ==
  [email |-> << <<WB, Cls(AlphaSet \cup DigitSet \cup {".", "_", "%", "+", "-"}, 1, -1),
                  Cls({"@"}, 1, 1), Cls(AlphaSet \cup DigitSet \cup {".", "-"}, 1, -1),
                  Cls({"."}, 1, 1), Cls(AlphaSet \cup {"|"}, 2, -1), WB>> >>,
   phone |-> << <<WB, Cls({"+"}, 1, 1), Cls({"9"}, 1, 1), Cls({"1"}, 1, 1), OptSep,
                  Cls({"6", "7", "8", "9"}, 1, 1), Cls(DigitSet, 9, 9), WB>>,
                <<WB, Cls({"6", "7", "8", "9"}, 1, 1), Cls(DigitSet, 9, 9), WB>> >>,
   aadhaar |-> << <<WB, Cls(DigitSet, 4, 4), OptSep, Cls(DigitSet, 4, 4), OptSep,
                    Cls(DigitSet, 4, 4), WB>> >>,
   pan |-> << <<WB, Cls(AlphaSet, 5, 5), Cls(DigitSet, 4, 4), Cls(AlphaSet, 1, 1), WB>> >>,
   pincode |-> << <<WB, Cls(DigitSet, 6, 6), WB>> >>,
   date |-> << <<WB, Cls(DigitSet, 1, 2), Cls({"/", "-"}, 1, 1), Cls(DigitSet, 1, 2),
                 Cls({"/", "-"}, 1, 1), Cls(DigitSet, 2, 4), WB>> >>]

\* patterns.items() in insertion order
PatternKeys == <<"email", "phone", "aadhaar", "pan", "pincode", "date">>

\* is the character at position i of s a word character (none outside s)
IsWordAt(s, i) == i >= 1 /\ i <= Len(s) /\ Ch(s, i) \in WordSet

\* \b holds before position i
IsBoundary(s, i) == IsWordAt(s, i - 1) # IsWordAt(s, i)

RECURSIVE RunLen(_, _, _, _)
\* how many characters from position i on are in set, at most max (-1: any number)
RunLen(s, i, set, max) ==
  IF max = 0 \/ i > Len(s) \/ Ch(s, i) \notin set THEN 0
  ELSE 1 + RunLen(s, i + 1, set, IF max = -1 THEN -1 ELSE max - 1)

RECURSIVE MatchFrom(_, _, _, _)
RECURSIVE TryCount(_, _, _, _, _)
\* elements k.. of p matched at position i of s: the position after the match
\* of the first successful path, -1 if none
MatchFrom(p, k, s, i) ==
  IF k > Len(p) THEN i
  ELSE IF p[k].kind = "wb"
    THEN (IF IsBoundary(s, i) THEN MatchFrom(p, k + 1, s, i) ELSE -1)
    ELSE TryCount(p, k, s, i, RunLen(s, i, p[k].set, p[k].max))

\* the greedy quantifier of element k takes n characters, then fewer
TryCount(p, k, s, i, n) ==
  IF n < p[k].min THEN -1
  ELSE LET r == MatchFrom(p, k + 1, s, i + n)
       IN IF r # -1 THEN r ELSE TryCount(p, k, s, i, n - 1)

RECURSIVE MatchAlts(_, _, _, _)
\* the alternatives a.. of a pattern at position i
MatchAlts(alts, a, s, i) ==
  IF a > Len(alts) THEN -1
  ELSE LET r == MatchFrom(alts[a], 1, s, i)
       IN IF r # -1 THEN r ELSE MatchAlts(alts, a + 1, s, i)

\* re.findall(pattern, text)[0], "" when findall gives no match: the match at
\* the least position where the pattern matches
FirstMatch(alts, s) ==
  LET starts == {i \in 1..Len(s) : MatchAlts(alts, 1, s, i) # -1}
  IN IF starts = {} THEN ""
     ELSE LET i == CHOOSE j \in starts : \A k \in starts : j <= k
          IN SubSeq(s, i, MatchAlts(alts, 1, s, i) - 1)

\* self.data[key] = value
DataSet(d, k, v) == [x \in (DOMAIN d) \cup {k} |-> IF x = k THEN v ELSE d[x]]

RECURSIVE StorePatterns(_, _, _)
\* the loop "for key, pattern in patterns.items()" from the k-th key on
StorePatterns(d, text, k) ==
  IF k > Len(PatternKeys) THEN d
  ELSE LET key == PatternKeys[k]
           m == FirstMatch(Patterns[key], text)
       IN StorePatterns(IF m # "" THEN DataSet(d, key, Strip(m)) ELSE d, text, k + 1)

(***************************************************************************)
(* extract_name_improved, Strategy 1, and extract_address.                 *)
(***************************************************************************)
\* the first position of character c in s, 0 if none
IndexOf(s, c) ==
  LET at == {i \in 1..Len(s) : Ch(s, i) = c}
  IN IF at = {} THEN 0 ELSE CHOOSE i \in at : \A j \in at : i <= j

RECURSIVE Split(_, _)
\* str.split(c) for a one-character c
Split(s, c) ==
  LET i == IndexOf(s, c)
  IN IF i = 0 THEN <<s>>
     ELSE <<SubSeq(s, 1, i - 1)>> \o Split(SubSeq(s, i + 1, Len(s)), c)

RECURSIVE SplitWords(_)
\* str.split()
SplitWords(s) ==
  LET t == LStrip(s)
  IN IF t = "" THEN <<>>
     ELSE LET n == RunLen(t, 1, CharsOf(t) \ SpaceSet, -1)
          IN <<SubSeq(t, 1, n)>> \o SplitWords(SubSeq(t, n + 1, Len(t)))

RECURSIVE Join(_, _)
\* sep.join(parts)
Join(parts, sep) ==
  IF parts = <<>> THEN ""
  ELSE IF Len(parts) = 1 THEN parts[1]
  ELSE parts[1] \o sep \o Join(Tail(parts), sep)

\* str.isalpha()
IsAlpha(w) == w # "" /\ \A i \in 1..Len(w) : Ch(w, i) \in AlphaSet

skip_words ==
  {"government", "india", "aadhaar", "unique", "authority",
   "male", "female", "dob", "birth", "year", "card", "number",
   "address", "pin", "code", "state", "district", "post",
   "income", "tax", "department", "permanent", "account",
   "republic", "signature", "photo", "date", "issue", "issued",
   "enrollment", "help", "resident", "identity", "www", "uidai"}

MinLineLen == 3
MaxLineLen == 100
MinWords == 2
MaxWords == 4
MinNameLen == 4
ShortNameLen == 6

\* re.search(r'\d{2,}', line)
HasDigitRun(line) ==
  \E i \in 1..(Len(line) - 1) : Ch(line, i) \in DigitSet /\ Ch(line, i + 1) \in DigitSet

\* re.search(r'[^A-Za-z\s\.]', line)
HasSpecial(line) ==
  \E i \in 1..Len(line) : Ch(line, i) \notin (AlphaSet \cup SpaceSet \cup {"."})

\* len(x.replace(' ', ''))
NoSpaceLen(x) == Len(RemoveChar(x, " "))

\* mutant of SkipsLine: the skip words are looked up in the line as written
SkipsLine_CaseSensitive(line) ==
  \/ Len(line) < MinLineLen \/ Len(line) > MaxLineLen
  \/ AnyIn(skip_words, line)
  \/ HasDigitRun(line)
  \/ HasSpecial(line)

\* the four "continue" tests on a stripped line
SkipsLine(line) ==
  \/ Len(line) < MinLineLen \/ Len(line) > MaxLineLen
  \/ AnyIn(skip_words, Lower(line))
  \/ HasDigitRun(line)
  \/ HasSpecial(line)

\* the nested ifs that append the line to potential_names
LooksLikeName(line) ==
  LET words == SplitWords(line)
  IN /\ Len(words) >= MinWords /\ Len(words) <= MaxWords
     /\ \A w \in 1..Len(words) : IsAlpha(RemoveChar(words[w], "."))
     /\ Ch(words[1], 1) \in UpperSet
     /\ NoSpaceLen(line) >= MinNameLen

StripAll(lines) == [i \in 1..Len(lines) |-> Strip(lines[i])]

IsPotentialName(line) == ~SkipsLine(line) /\ LooksLikeName(line)

\* the loop "for line in lines" of Strategy 1
PotentialNames(text) == SelectSeq(StripAll(Split(text, "\n")), IsPotentialName)

\* mutant of LongestOf: the first candidate
LongestOf_First(names) == names[1]

\* max(names, key=lambda x: len(x.replace(' ', ''))): the first of the maximal ones
LongestOf(names) ==
  names[CHOOSE i \in 1..Len(names) :
          /\ \A j \in 1..Len(names) : NoSpaceLen(names[j]) <= NoSpaceLen(names[i])
          /\ \A j \in 1..(i - 1) : NoSpaceLen(names[j]) < NoSpaceLen(names[i])]

IsLongName(n) == NoSpaceLen(n) >= ShortNameLen

\* best_name of Strategy 1 for a non-empty potential_names
BestName(names) ==
  LET best_name == LongestOf(names)
  IN IF NoSpaceLen(best_name) < ShortNameLen
       THEN LET better_names == SelectSeq(names, IsLongName)
            IN IF better_names # <<>> THEN LongestOf(better_names) ELSE best_name
       ELSE best_name

AddressIndicators == {"s/o", "c/o", "d/o", "w/o", "street", "road", "village"}
FollowingLines == 3
MinPartLen == 3
MinAddressLen == 20
MaxAddressLen == 200

IsAddressPart(next_line) == next_line # "" /\ Len(next_line) > MinPartLen

RECURSIVE AddressFrom_FirstOnly(_, _)
\* mutant of AddressFrom: the first indicator line decides, a join that is too
\* short ends the search
AddressFrom_FirstOnly(lines, i) ==
  IF i > Len(lines) THEN ""
  ELSE LET line == Strip(lines[i])
       IN IF AnyIn(AddressIndicators, Lower(line))
            THEN LET last == IF i + FollowingLines < Len(lines)
                               THEN i + FollowingLines ELSE Len(lines)
                     address_parts ==
                       <<line>> \o SelectSeq(StripAll(SubSeq(lines, i + 1, last)),
                                             IsAddressPart)
                     address == Join(address_parts, " ")
                 IN IF Len(address) > MinAddressLen
                      THEN SubSeq(address, 1,
                                  IF Len(address) < MaxAddressLen
                                    THEN Len(address) ELSE MaxAddressLen)
                      ELSE ""
            ELSE AddressFrom_FirstOnly(lines, i + 1)

RECURSIVE AddressFrom(_, _)
\* the loop "for i, line in enumerate(lines)" of extract_address from line i
\* on: the address returned, "" if the loop ends without one
AddressFrom(lines, i) ==
  IF i > Len(lines) THEN ""
  ELSE LET line == Strip(lines[i])
       IN IF AnyIn(AddressIndicators, Lower(line))
            THEN LET last == IF i + FollowingLines < Len(lines)
                               THEN i + FollowingLines ELSE Len(lines)
                     address_parts ==
                       <<line>> \o SelectSeq(StripAll(SubSeq(lines, i + 1, last)),
                                             IsAddressPart)
                     address == Join(address_parts, " ")
                 IN IF Len(address) > MinAddressLen
                      THEN SubSeq(address, 1,
                                  IF Len(address) < MaxAddressLen
                                    THEN Len(address) ELSE MaxAddressLen)
                      ELSE AddressFrom(lines, i + 1)
            ELSE AddressFrom(lines, i + 1)

(***************************************************************************)
(* Field Extractor: extract_structured_data as a state machine, run twice  *)
(* on one text, on the same instance or on a fresh one.                    *)
(***************************************************************************)
\* lines a document text is made of
LinePool ==
  {"Raj Kumar", "Dr. A. B. C.", "S Raj", "Pin Tax",
   "DOB: 01/02/1990 Ph 9876543210 john@x.com",
   "1234 5678 9012 ABCDE1234F 560001",
   "S/O Raman, 12 Main Road", "C/O Anu",
   "Government of India Unique Identification Authority"}

RECURSIVE LineSeqs(_)
\* the sequences of n lines
LineSeqs(n) ==
  IF n = 0 THEN {<<>>}
  ELSE {Append(ls, l) : ls \in LineSeqs(n - 1), l \in LinePool}

\* a line of 69 characters without an address indicator
LongLine == "Opposite the old water tank behind the temple near the bus stand Pune"

\* texts of more lines, for the address heuristic: an indicator line whose
\* join is too short before one whose join is long enough; an empty line
\* among the three lines after the indicator line; a join of more than 200
\* characters; joins of exactly 20 and of 21 characters
AddressTexts ==
  {Join(<<"C/O Anu", "", "ab", "", "S/O Raman, 12 Main Road">>, "\n"),
   Join(<<"S/O Raman, 12 Main Road", "", "Flat 4", "Hill View", "Pune City">>, "\n"),
   Join(<<"S/O Raman, 12 Main Road", LongLine, LongLine, LongLine>>, "\n"),
   Join(<<"C/O Anu", " Twelve chars ">>, "\n"),
   Join(<<"C/O Anu", " Thirteen char ">>, "\n")}

\* self.text after extract_text: no text, or up to MaxLines lines
TextPool ==
  {Join(ls, "\n") : ls \in UNION {LineSeqs(n) : n \in 0..MaxLines}} \cup AddressTexts

\* if self.qa_pipeline and len(self.text) > 50
MinQaText == 50
\* result['score'] > 0.3 and result['score'] > 0.2, in hundredths
NameMinScore == 30
AddressMinScore == 20

\* what the question-answering model answers
QaAnswer == [name |-> " Jane Roe ", address |-> "Flat 4, Hill View, Pune 411001"]

\* the environments: the model loads and answers with a fixed score, the model
\* cannot be loaded, or loading and answering fail now and then
BertEnvs ==
  {[mode |-> "available", score |-> s] : s \in {10, 25, 35}}
    \cup {[mode |-> "unavailable", score |-> 0], [mode |-> "flaky", score |-> 35]}

InitExtract ==
  /\ IdleFill
  /\ IdleAcquire
  /\ IdleUpload
  /\ e_pc = "start"
  /\ e_text \in TextPool
  /\ e_data = EmptyData
  /\ qa_pipeline = "None"
  /\ \E env \in BertEnvs : bertMode = env.mode /\ qaScore = env.score
  /\ e_runs = 0
  /\ e_first = EmptyData
  /\ potential_names = <<>>
  /\ nameS1 = ""
  /\ nameVia = "none"
  /\ initLoads = 0

envVars == <<e_text, bertMode, qaScore>>

\* extract_structured_data is called on the new instance
StartExtract ==
  /\ e_pc = "start"
  /\ e_pc' = "regex"
  /\ e_runs' = 1
  /\ UNCHANGED <<envVars, e_data, qa_pipeline, e_first, potential_names, nameS1,
                 nameVia, initLoads>>
  /\ UNCHANGED <<fillVars, acqVars, upVars>>

\* for key, pattern in patterns.items(): ... self.data[key] = matches[0].strip()
RegexFields ==
  /\ e_pc = "regex"
  /\ e_data' = StorePatterns(e_data, e_text, 1)
  /\ e_pc' = "name"
  /\ UNCHANGED <<envVars, qa_pipeline, e_runs, e_first, potential_names, nameS1,
                 nameVia, initLoads>>
  /\ UNCHANGED <<fillVars, acqVars, upVars>>

\* name = ...; if name: self.data['name'] = name
StoreName(d, name) == IF name # "" THEN DataSet(d, "name", name) ELSE d

\* extract_name_improved, Strategy 1: the candidate lines and, if there is
\* one, the best of them is the name
NameHeuristic ==
  /\ e_pc = "name"
  /\ potential_names' = PotentialNames(e_text)
  /\ IF potential_names' # <<>>
       THEN /\ nameS1' = BestName(potential_names')
            /\ nameVia' = "s1"
            /\ e_data' = StoreName(e_data, nameS1')
            /\ e_pc' = "address"
       ELSE /\ nameS1' = ""
            /\ nameVia' = "none"
            /\ e_pc' = "nameBert"
            /\ UNCHANGED e_data
  /\ UNCHANGED <<envVars, qa_pipeline, e_runs, e_first, initLoads>>
  /\ UNCHANGED <<fillVars, acqVars, upVars>>

\* _init_bert: nothing if the pipeline is loaded; else the load is tried, and a
\* failure leaves self.qa_pipeline None (it is tried again at the next call)
InitBert ==
  /\ e_pc \in {"nameBert", "addrBert"}
  /\ e_pc' = IF e_pc = "nameBert" THEN "nameQA" ELSE "addrQA"
  /\ IF qa_pipeline = "None"
       THEN /\ initLoads' = initLoads + 1
            /\ \E loaded \in BOOLEAN :
                 /\ bertMode = "available" => loaded
                 /\ bertMode = "unavailable" => ~loaded
                 /\ qa_pipeline' = IF loaded THEN "loaded" ELSE "None"
       ELSE UNCHANGED <<qa_pipeline, initLoads>>
  /\ UNCHANGED <<envVars, e_data, e_runs, e_first, potential_names, nameS1, nameVia>>
  /\ UNCHANGED <<fillVars, acqVars, upVars>>

\* mutant of NameQA: the model is asked whatever the length of the text
NameQA_NoLengthGuard ==
  /\ e_pc = "nameQA"
  /\ e_pc' = "address"
  /\ IF qa_pipeline = "loaded"
       THEN \E raises \in BOOLEAN :
              /\ raises => bertMode = "flaky"
              /\ IF ~raises /\ qaScore > NameMinScore
                   THEN /\ e_data' = StoreName(e_data, Strip(QaAnswer.name))
                        /\ nameVia' = "bert"
                   ELSE UNCHANGED <<e_data, nameVia>>
       ELSE UNCHANGED <<e_data, nameVia>>
  /\ UNCHANGED <<envVars, qa_pipeline, e_runs, e_first, potential_names, nameS1,
                 initLoads>>
  /\ UNCHANGED <<fillVars, acqVars, upVars>>

\* extract_name_improved, Strategy 2: the model is asked for the name over
\* self.text[:2000]; an exception of the call is caught
NameQA ==
  /\ e_pc = "nameQA"
  /\ e_pc' = "address"
  /\ IF qa_pipeline = "loaded" /\ Len(e_text) > MinQaText
       THEN \E raises \in BOOLEAN :
              /\ raises => bertMode = "flaky"
              /\ IF ~raises /\ qaScore > NameMinScore
                   THEN /\ e_data' = StoreName(e_data, Strip(QaAnswer.name))
                        /\ nameVia' = "bert"
                   ELSE UNCHANGED <<e_data, nameVia>>
       ELSE UNCHANGED <<e_data, nameVia>>
  /\ UNCHANGED <<envVars, qa_pipeline, e_runs, e_first, potential_names, nameS1,
                 initLoads>>
  /\ UNCHANGED <<fillVars, acqVars, upVars>>

\* mutant of StoreAddress: the address is added to the one already there
StoreAddress_Appending(d, address) ==
  IF address # ""
    THEN DataSet(d, "address",
                 IF "address" \in DOMAIN d THEN d["address"] \o " " \o address ELSE address)
    ELSE d

\* address = ...; if address: self.data['address'] = address
StoreAddress(d, address) == IF address # "" THEN DataSet(d, "address", address) ELSE d

\* extract_address, the indicator lines
AddressHeuristic ==
  /\ e_pc = "address"
  /\ LET address == AddressFrom(Split(e_text, "\n"), 1)
     IN IF address # ""
          THEN /\ e_data' = StoreAddress(e_data, address)
               /\ e_pc' = "ret"
          ELSE /\ e_pc' = "addrBert"
               /\ UNCHANGED e_data
  /\ UNCHANGED <<envVars, qa_pipeline, e_runs, e_first, potential_names, nameS1,
                 nameVia, initLoads>>
  /\ UNCHANGED <<fillVars, acqVars, upVars>>

\* extract_address, the fallback: the model is asked for the address
AddressQA ==
  /\ e_pc = "addrQA"
  /\ e_pc' = "ret"
  /\ IF qa_pipeline = "loaded" /\ Len(e_text) > MinQaText
       THEN \E raises \in BOOLEAN :
              /\ raises => bertMode = "flaky"
              /\ IF ~raises /\ qaScore > AddressMinScore
                   THEN e_data' = StoreAddress(e_data, Strip(QaAnswer.address))
                   ELSE UNCHANGED e_data
       ELSE UNCHANGED e_data
  /\ UNCHANGED <<envVars, qa_pipeline, e_runs, e_first, potential_names, nameS1,
                 nameVia, initLoads>>
  /\ UNCHANGED <<fillVars, acqVars, upVars>>

\* return self.data
ReturnData ==
  /\ e_pc = "ret"
  /\ e_pc' = "returned"
  /\ e_first' = IF e_runs = 1 THEN e_data ELSE e_first
  /\ UNCHANGED <<envVars, e_data, qa_pipeline, e_runs, potential_names, nameS1,
                 nameVia, initLoads>>
  /\ UNCHANGED <<fillVars, acqVars, upVars>>

\* extract_structured_data is called again on the same text: on the same
\* instance, or on a fresh one (__init__: self.data = {}, self.qa_pipeline = None)
RunAgain ==
  /\ e_pc = "returned"
  /\ e_runs = 1
  /\ e_runs' = e_runs + 1
  /\ e_pc' = "regex"
  /\ \E fresh \in BOOLEAN :
       IF fresh
         THEN e_data' = EmptyData /\ qa_pipeline' = "None"
         ELSE UNCHANGED <<e_data, qa_pipeline>>
  /\ potential_names' = <<>>
  /\ nameS1' = ""
  /\ nameVia' = "none"
  /\ UNCHANGED <<envVars, e_first, initLoads>>
  /\ UNCHANGED <<fillVars, acqVars, upVars>>

NextExtract ==
  \/ StartExtract \/ RegexFields \/ NameHeuristic \/ InitBert \/ NameQA
  \/ AddressHeuristic \/ AddressQA \/ ReturnData \/ RunAgain

(***************************************************************************)
(* Properties of the Field Extractor.                                      *)
(***************************************************************************)
\* the number of letters of x
LettersLen(x) == Cardinality({i \in 1..Len(x) : Ch(x, i) \in AlphaSet})

\* C3: on an empty text extract_structured_data produces no regex field, no
\* name and no address and returns the empty FieldMap, in every environment
\* of the question-answering model, which is never asked.
C3_EmptyTextEmptyMap ==
  e_text = "" =>
    /\ e_data = EmptyData
    /\ potential_names = <<>>
    /\ nameVia = "none"
    /\ e_pc \in {"start", "regex", "name", "nameBert", "nameQA", "address", "addrBert",
                 "addrQA", "ret", "returned"}
    /\ e_pc = "returned" => e_first = EmptyData

\* the empty text went through a run with the model loaded
C3_Witness ==
  /\ e_text = "" /\ e_pc = "returned" /\ e_data = EmptyData
  /\ bertMode = "available" /\ qaScore = 35 /\ qa_pipeline = "loaded"

\* C8: a name given by Name Strategy 1 has no run of two or more digits and
\* none of the skip words as a case-insensitive substring, and it is the name
\* stored in the FieldMap.
C8_NameS1Clean ==
  nameVia = "s1" =>
    /\ ~HasDigitRun(nameS1)
    /\ ~AnyIn(skip_words, Lower(nameS1))
    /\ nameS1 # ""
    /\ e_pc \in {"address", "addrBert", "addrQA", "ret", "returned"} =>
         ("name" \in DOMAIN e_data /\ e_data["name"] = nameS1)

\* a line with a skip word in capitals and a line with digits were passed over
C8_Witness ==
  /\ e_pc = "returned" /\ nameVia = "s1" /\ nameS1 = "Raj Kumar"
  /\ e_text \in {"Pin Tax\nRaj Kumar", "1234 5678 9012 ABCDE1234F 560001\nRaj Kumar"}

C10_SecondRunSame ==
  (e_runs = 2 /\ e_pc = "returned" /\ bertMode # "flaky") => e_data = e_first

\* the second run on the same instance, with regex fields and with a name and
\* an address from the model loaded once
C10_Witness ==
  /\ e_runs = 2 /\ e_pc = "returned" /\ bertMode = "available" /\ initLoads = 1
  /\ nameVia = "bert" /\ DOMAIN e_data = {"email", "phone", "date", "name", "address"}
  /\ e_data = e_first

\* C16: where the question-answering model cannot be loaded, the first failed
\* initialisation is the only one: neither the address fallback nor a later
\* extraction on the same extractor attempts the load again.
C16_FailureCached ==
  bertMode = "unavailable" => initLoads <= 1

\* the lines of the text, trimmed
C22_Lines == StripAll(Split(e_text, "\n"))

\* the lines with an address indicator
C22_IndicatorLines ==
  {i \in 1..Len(C22_Lines) : \E w \in AddressIndicators : Contains(Lower(C22_Lines[i]), w)}

\* line i joined by single spaces with those of the 3 lines after it that are
\* longer than 3 characters
C22_Joined(i) ==
  LET after == {j \in 1..Len(C22_Lines) : j > i /\ j <= i + 3 /\ Len(C22_Lines[j]) > 3}
      n == Cardinality(after)
      nth(k) == CHOOSE j \in after : Cardinality({m \in after : m < j}) = k - 1
  IN Join(<<C22_Lines[i]>> \o [k \in 1..n |-> C22_Lines[nth(k)]], " ")

\* the first 200 characters of s
C22_Truncated(s) == IF Len(s) > 200 THEN SubSeq(s, 1, 200) ELSE s

\* the address heuristic gives address a, "" for none
C22_Gives(a) ==
  IF a = ""
    THEN e_pc' = "addrBert" /\ e_data' = e_data
    ELSE e_pc' = "ret" /\ "address" \in DOMAIN e_data' /\ e_data'["address"] = a

\* C22 as stated: the heuristic acts on the first line with an indicator: its
\* join with the non-trivial lines among the next 3 is the address, cut to 200
\* characters, if and only if the join is longer than 20 characters.
C22_FirstIndicatorStep ==
  e_pc = "address" =>
    IF C22_IndicatorLines = {} THEN C22_Gives("")
    ELSE LET f == CHOOSE i \in C22_IndicatorLines : \A j \in C22_IndicatorLines : i <= j
         IN IF Len(C22_Joined(f)) > 20
              THEN C22_Gives(C22_Truncated(C22_Joined(f)))
              ELSE C22_Gives("")

C22_FirstIndicatorLine == [][C22_FirstIndicatorStep]_<<fillVars, acqVars, extVars, upVars>>

\* C22 amended: the heuristic acts on the first line with an indicator whose
\* join with the non-trivial lines among the 3 lines after it is longer than
\* 20 characters, and gives that join cut to 200 characters; it gives nothing
\* exactly when no indicator line has such a join.
C22_FirstAcceptedStep ==
  e_pc = "address" =>
    LET acc == {i \in C22_IndicatorLines : Len(C22_Joined(i)) > 20}
    IN IF acc = {} THEN C22_Gives("")
       ELSE LET f == CHOOSE i \in acc : \A j \in acc : i <= j
            IN /\ C22_Gives(C22_Truncated(C22_Joined(f)))
               /\ Len(e_data'["address"]) <= 200

C22_FirstAcceptedIndicatorLine == [][C22_FirstAcceptedStep]_<<fillVars, acqVars, extVars, upVars>>

\* the first indicator line ("C/O Anu", alone 7 characters) was passed over and
\* the second one gave the address
C22_Witness ==
  /\ e_text = "C/O Anu\n\nab\n\nS/O Raman, 12 Main Road"
  /\ e_pc = "ret" /\ e_runs = 1
  /\ "address" \in DOMAIN e_data /\ e_data["address"] = "S/O Raman, 12 Main Road"

\* a join of 233 characters was cut to 200
C22_WitnessTruncated ==
  /\ e_pc = "ret" /\ "address" \in DOMAIN e_data /\ Len(e_data["address"]) = 200
  /\ Len(e_text) > 200

\* a join of exactly 20 characters gave no address, one of 21 did
C22_WitnessBoundary ==
  \/ e_text = "C/O Anu\n Twelve chars " /\ e_pc = "addrBert"
  \/ e_text = "C/O Anu\n Thirteen char " /\ e_pc = "ret" /\ e_data["address"] = "C/O Anu Thirteen char"

(***************************************************************************)
(* The /extract endpoint: main.py extract_pdf_data.  The handler is an     *)
(* "async def" on one event loop: between the call and its only await      *)
(* (file.read()), and from the await to the end, a request runs alone;     *)
(* while it is suspended in the await another request may run.            *)
(***************************************************************************)
\* s ends with suffix k
EndsWith(s, k) == Len(s) >= Len(k) /\ SubSeq(s, Len(s) - Len(k) + 1, Len(s)) = k

\* file.filename.lower().endswith('.pdf')
IsPdfName(name) == EndsWith(Lower(name), ".pdf")

InitUpload ==
  /\ IdleFill
  /\ IdleAcquire
  /\ IdleExtract
  /\ u_pc = [r \in Requests |-> "idle"]
  /\ u_name \in [Requests -> FileNames]
  /\ upload_dir \in SUBSET {n \in FileNames : IsPdfName(n)}   \* files left by earlier requests
  /\ UploadLocalsInit

\* request r has the event loop: no other request is between two suspension points
HasLoop(r) == \A o \in Requests \ {r} : u_pc[o] \in {"idle", "read", "done"}

\* the request ends, the upload directory holding the files dir: the response
\* or the error goes to the client
Ends(r, status, dir) ==
  /\ u_pc' = [u_pc EXCEPT ![r] = "done"]
  /\ u_status' = [u_status EXCEPT ![r] = status]
  /\ u_left' = [u_left EXCEPT ![r] = u_name[r] \in dir]

\* if not file.filename.lower().endswith('.pdf'): raise HTTPException(400)
TypeCheck(r) ==
  /\ u_pc[r] = "idle" /\ HasLoop(r)
  /\ IF IsPdfName(u_name[r])
       THEN /\ u_pc' = [u_pc EXCEPT ![r] = "open"]
            /\ UNCHANGED <<u_status, u_left>>
       ELSE Ends(r, "400", upload_dir)
  /\ UNCHANGED <<u_name, upload_dir, u_removeRaised>>
  /\ UNCHANGED <<fillVars, acqVars, extVars>>

\* with open(file_path, "wb") as buffer: the file is created or emptied, or
\* open raises; then file.read() is awaited
OpenFile(r) ==
  /\ u_pc[r] = "open" /\ HasLoop(r)
  /\ \/ /\ upload_dir' = upload_dir \cup {u_name[r]}
        /\ u_pc' = [u_pc EXCEPT ![r] = "read"]
     \/ /\ u_pc' = [u_pc EXCEPT ![r] = "except"]
        /\ UNCHANGED upload_dir
  /\ UNCHANGED <<u_name, u_status, u_left, u_removeRaised>>
  /\ UNCHANGED <<fillVars, acqVars, extVars>>

\* content = await file.read(); buffer.write(content); the with block closes
\* the file; either call may raise
ReadAndWrite(r) ==
  /\ u_pc[r] = "read" /\ HasLoop(r)
  /\ \E raises \in BOOLEAN :
       u_pc' = [u_pc EXCEPT ![r] = IF raises THEN "except" ELSE "size"]
  /\ UNCHANGED <<u_name, upload_dir, u_status, u_left, u_removeRaised>>
  /\ UNCHANGED <<fillVars, acqVars, extVars>>

\* file_size = os.path.getsize(file_path): raises when the file is gone
GetSize(r) ==
  /\ u_pc[r] = "size" /\ HasLoop(r)
  /\ u_pc' = [u_pc EXCEPT ![r] = IF u_name[r] \in upload_dir THEN "process" ELSE "except"]
  /\ UNCHANGED <<u_name, upload_dir, u_status, u_left, u_removeRaised>>
  /\ UNCHANGED <<fillVars, acqVars, extVars>>

\* extractor = SmartPDFExtractor(str(file_path)); text, extracted_data =
\* extractor.process(): returns, or raises an Exception
Process(r) ==
  /\ u_pc[r] = "process" /\ HasLoop(r)
  /\ \E raises \in BOOLEAN :
       u_pc' = [u_pc EXCEPT ![r] = IF raises THEN "except" ELSE "remove"]
  /\ UNCHANGED <<u_name, upload_dir, u_status, u_left, u_removeRaised>>
  /\ UNCHANGED <<fillVars, acqVars, extVars>>

\* os.remove(file_path) on the success path: the file is removed, or os.remove
\* raises (OSError) and the file stays
RemoveFile(r) ==
  /\ u_pc[r] = "remove" /\ HasLoop(r)
  /\ \/ /\ u_name[r] \in upload_dir
        /\ upload_dir' = upload_dir \ {u_name[r]}
        /\ u_pc' = [u_pc EXCEPT ![r] = "respond"]
        /\ UNCHANGED u_removeRaised
     \/ /\ u_pc' = [u_pc EXCEPT ![r] = "except"]
        /\ u_removeRaised' = [u_removeRaised EXCEPT ![r] = @ \/ u_name[r] \in upload_dir]
        /\ UNCHANGED upload_dir
  /\ UNCHANGED <<u_name, u_status, u_left>>
  /\ UNCHANGED <<fillVars, acqVars, extVars>>

\* response = ExtractionResponse(...); return response
Respond(r) ==
  /\ u_pc[r] = "respond" /\ HasLoop(r)
  /\ Ends(r, "200", upload_dir)
  /\ UNCHANGED <<u_name, upload_dir, u_removeRaised>>
  /\ UNCHANGED <<fillVars, acqVars, extVars>>

\* mutant of Except: the handler does not clean up
Except_NoCleanup(r) ==
  /\ u_pc[r] = "except" /\ HasLoop(r)
  /\ Ends(r, "500", upload_dir)
  /\ UNCHANGED <<u_name, upload_dir, u_removeRaised>>
  /\ UNCHANGED <<fillVars, acqVars, extVars>>

\* except Exception as e: if file_path.exists(): os.remove(file_path); ...;
\* raise HTTPException(500).  An exception of this os.remove leaves the
\* handler as it is
Except(r) ==
  /\ u_pc[r] = "except" /\ HasLoop(r)
  /\ IF u_name[r] \in upload_dir
       THEN \/ /\ upload_dir' = upload_dir \ {u_name[r]}
               /\ Ends(r, "500", upload_dir \ {u_name[r]})
               /\ UNCHANGED u_removeRaised
            \/ /\ UNCHANGED upload_dir
               /\ Ends(r, "error", upload_dir)
               /\ u_removeRaised' = [u_removeRaised EXCEPT ![r] = TRUE]
       ELSE /\ UNCHANGED <<upload_dir, u_removeRaised>>
            /\ Ends(r, "500", upload_dir)
  /\ UNCHANGED u_name
  /\ UNCHANGED <<fillVars, acqVars, extVars>>

NextUpload ==
  \E r \in Requests :
    \/ TypeCheck(r) \/ OpenFile(r) \/ ReadAndWrite(r) \/ GetSize(r) \/ Process(r)
    \/ RemoveFile(r) \/ Respond(r) \/ Except(r)

\* the requests that passed the file-type check and ended
C23_Ended(r) == u_pc[r] = "done" /\ u_status[r] # "400"

NextFill ==
  \/ Launch \/ NewPage \/ Goto \/ WaitForSelector \/ Enumerate
  \/ NextGroup \/ LoopExit \/ Inspect \/ CountGroup \/ Match
  \/ QueryControls \/ TryCandidate \/ ExhaustCandidates \/ FillReturn
  \/ Screenshot \/ CloseAndReturn \/ ProbeAlive \/ ProbeFails \/ Interrupt
  \/ ErrorScreenshot \/ ErrorClose

vars == <<fillVars, acqVars, extVars, upVars>>

Spec == InitFill /\ [][NextFill]_vars

SpecMatch == InitMatch /\ [][NextMatch]_vars

SpecAcquire == InitAcquire /\ [][NextAcquire]_vars

SpecExtract == InitExtract /\ [][NextExtract]_vars

SpecUpload == InitUpload /\ [][NextUpload]_vars

====
